---- MODULE Spec2Model ----
(***************************************************************************)
(* A model of workoflow-mcp: the token-scoped TTL tool cache (cache.py),   *)
(* the three protocol operations built on it (server.py) and the dynamic   *)
(* tool registration (tools.py).                                           *)
(*                                                                         *)
(* Python strings are TLA+ strings; slicing, concatenation, prefix and      *)
(* substring tests are computed on them with Len, SubSeq and \o.           *)
(***************************************************************************)
EXTENDS Integers, Sequences, FiniteSets, TLC

VARIABLES
    store,       \* ToolCache._cache: key -> (tools, timestamp)
    now,         \* time.time()
    call,        \* the cache method called last, when the cache is driven directly
    ret,         \* what that call returned
    removed,     \* how many entries that call removed
    lastSet,     \* the arguments and time of the last set, while only gets followed
    TOOL_TYPES,  \* server.TOOL_TYPES, read from the environment at import
    pc,          \* per request: "idle", or the gateway call it is suspended in
    tok,         \* per suspended list/refresh request: its token
    gwCalls,     \* how many requests were sent to the gateway
    httpClient,  \* WorkoflowClient._client: "None" or "open"
    resp,        \* the response the last step produced, NoResp if it produced none
    listed,      \* per token: what the list calls that stored a catalog answered,
                 \* in order, since the last refresh and within the last TTL
    order,       \* the list/refresh requests suspended in their fetch, oldest first
    passed,      \* per such request: the catalog that a request of the same token
                 \* sent after it has stored meanwhile, None if there is none
    wrote,       \* the cache.set the last step ran, NoWrite if it ran none
    registry,    \* the protocol server's tools: registrations (name, bound token)
    toolsCall,   \* the registration call made last and its arguments
    toolsRet,    \* what that call returned
    invoked,     \* the registered callable called last, the gateway's response
                 \* to it and what the callable returned
    repeated,    \* whether that call repeated the call before it, arguments included
    transports,  \* every httpx.AsyncClient created so far: is_closed, aclose() calls
    client,      \* WorkoflowClient._client: 0 for None, else the transport it references
    closePc,     \* per close() call: "idle", or "aclose" while suspended in its await
    using,       \* per request: the transport it awaits its response on, 0 for none
    fmtIn,       \* the schema _summarize_parameters was called with last
    fmtOut,      \* what it returned
    lifespan     \* the server lifespan: "running", "closing", "ended", "failed"

cacheVars == <<call, ret, removed, lastSet>>
raceVars == <<order, passed, wrote>>
serverVars == <<TOOL_TYPES, pc, tok, gwCalls, httpClient, resp, listed, raceVars>>
toolVars == <<registry, toolsCall, toolsRet, invoked>>
clientVars == <<transports, client, closePc, using, lifespan>>
formatVars == <<fmtIn, fmtOut>>
moreVars == <<clientVars, formatVars>>

(***************************************************************************)
(* Bounds of the model.                                                    *)
(***************************************************************************)
\* ttl_seconds of the cache instance, in clock ticks (the default is 600).
TTL == 1
\* The clock stops advancing here; MaxTime > TTL so that entries do expire.
MaxTime == 2
\* How many requests may be in flight (suspended in a gateway call) at once.
NReq == 2
\* How many gateway requests a behaviour sends at most.
MaxGwCalls == 2
\* How many tool definitions a catalog handed to the registration holds at most.
MaxTools == 2
\* How many transports the client creates at most.
MaxTransports == 3
\* How many close() calls, besides the lifespan's, may be suspended at once.
NClose == 2

(***************************************************************************)
(* Values.                                                                 *)
(***************************************************************************)
\* Python's None, as a JSON-like tagged value.
None == [t |-> "null", v |-> <<>>]
\* A Python list / JSON array.
JList(s) == [t |-> "list", v |-> s]
\* A Python dict / JSON object; r is a record of its items.
JObj(r) == [t |-> "dict", v |-> r]
\* A Python str / JSON string.
JStr(s) == [t |-> "str", v |-> s]

\* tool_types = None (the str | None parameter of the cache methods).
NoFilter == None

TokA == "tkA"
TokB == "tkB"
\* A token that happens to be the word "all".
TokAll == "all"
Tokens == {TokA, TokB, TokAll}
\* The tokens the cache is driven with directly.
CacheTokens == {TokA, TokAll}

\* Filter arguments: absent, "", "all", "x".
Filters == {NoFilter, JStr(""), JStr("all"), JStr("x")}

(***************************************************************************)
(* String helpers.                                                         *)
(***************************************************************************)
\* str.startswith
StartsWith(s, p) == Len(s) >= Len(p) /\ SubSeq(s, 1, Len(p)) = p

\* Python's `p in s` for strings: p occurs in s as a contiguous substring.
Contains(s, p) ==
    \E i \in 0..(Len(s) - Len(p)) : SubSeq(s, i + 1, i + Len(p)) = p

(***************************************************************************)
(* cache.py                                                                *)
(***************************************************************************)
\* hashlib.sha256(token.encode()).hexdigest()[:16], tabulated for the tokens
\* of the model (the values are the real digests' first 16 hex characters).
Sha256Hex16(token) ==
    CASE token = TokA -> "f30335d849f90883"
      [] token = TokB -> "75065fda3ee9066e"
      [] token = TokAll -> "5ef5ef0364b6939c"
      [] token = "" -> "e3b0c44298fc1c14"

\* tool_types or 'all'
\* A plausible slip: `or 'all'` is missing, the empty filter is kept as it is.
FilterNotDefaulted(tool_types) ==
    IF tool_types = None THEN "all" ELSE tool_types.v

FilterOrAll(tool_types) ==
    IF tool_types = None THEN "all"
    ELSE IF tool_types.v = "" THEN "all" ELSE tool_types.v

\* A plausible slip: the filter is left out of the key.
make_key_without_filter(prompt_token, tool_types) ==
    Sha256Hex16(prompt_token) \o ":" \o "all"

\* A plausible slip: the token is left out of the key.
make_key_without_token(prompt_token, tool_types) ==
    "shared:" \o FilterOrAll(tool_types)

\* f"{token_hash}:{tool_types or 'all'}"
make_key(prompt_token, tool_types) ==
    Sha256Hex16(prompt_token) \o ":" \o FilterOrAll(tool_types)

\* dict item assignment and deletion
Put(d, k, e) == [x \in (DOMAIN d) \cup {k} |-> IF x = k THEN e ELSE d[x]]
Del(d, k) == [x \in (DOMAIN d) \ {k} |-> d[x]]

\* A plausible slip: the boundary instant counts as expired.
ExpiredAtBoundary(timestamp, t) == t - timestamp >= TTL

\* time.time() - timestamp > self.ttl_seconds
Expired(timestamp, t) == t - timestamp > TTL

\* ToolCache.get at time t: the returned value and the store it leaves.
ToolCache_get(st, t, prompt_token, tool_types) ==
    LET key == make_key(prompt_token, tool_types) IN
    IF key \notin DOMAIN st
    THEN [ret |-> None, store |-> st]
    ELSE IF Expired(st[key].timestamp, t)
         THEN [ret |-> None, store |-> Del(st, key)]
         ELSE [ret |-> st[key].tools, store |-> st]

\* A plausible slip: set keeps the entry that is already there (setdefault).
ToolCache_set_if_absent(st, t, prompt_token, tool_types, tools) ==
    IF make_key(prompt_token, tool_types) \in DOMAIN st
    THEN st
    ELSE Put(st, make_key(prompt_token, tool_types), [tools |-> tools, timestamp |-> t])

\* ToolCache.set at time t.
ToolCache_set(st, t, prompt_token, tool_types, tools) ==
    Put(st, make_key(prompt_token, tool_types), [tools |-> tools, timestamp |-> t])

\* A plausible slip: the bulk removal forgets the ':' and the token test.
InvalidateAllTokens(st, prompt_token, tool_types) ==
    IF tool_types # NoFilter
    THEN Del(st, make_key(prompt_token, tool_types))
    ELSE [k \in {} |-> None]

\* A plausible slip: the filter is ignored and the whole token is removed.
invalidate_whole_token(st, prompt_token, tool_types) ==
    [k \in {x \in DOMAIN st : ~StartsWith(x, Sha256Hex16(prompt_token) \o ":")} |-> st[k]]

\* ToolCache.invalidate.
ToolCache_invalidate(st, prompt_token, tool_types) ==
    IF tool_types # NoFilter
    THEN Del(st, make_key(prompt_token, tool_types))
    ELSE LET prefix == Sha256Hex16(prompt_token) \o ":"
             keys_to_remove == {k \in DOMAIN st : StartsWith(k, prefix)}
         IN  [k \in (DOMAIN st) \ keys_to_remove |-> st[k]]

\* ToolCache.clear.
ToolCache_clear(st) == [k \in {} |-> None]

(***************************************************************************)
(* server.py: values.                                                      *)
(***************************************************************************)
\* A JSON boolean.
JBool(b) == [t |-> "bool", v |-> b]
\* The empty dict {}.
EmptyDict == JObj(<<>>)

IsDict(x) == x.t = "dict"
HasKey(d, k) == k \in DOMAIN d.v
\* dict.get(k, default)
DictGet(d, k, default) == IF HasKey(d, k) THEN d.v[k] ELSE default

\* Python truthiness of a JSON value.
Truthy(x) ==
    CASE x.t = "null" -> FALSE
      [] x.t = "bool" -> x.v
      [] x.t = "str" -> x.v # ""
      [] x.t = "list" -> Len(x.v) > 0
      [] x.t = "dict" -> DOMAIN x.v # {}

\* str.lower(), character by character.
UpperCase == "ABCDEFGHIJKLMNOPQRSTUVWXYZ"
LowerCase == "abcdefghijklmnopqrstuvwxyz"
LowerChar(c) ==
    IF \E i \in 1..26 : SubSeq(UpperCase, i, i) = c
    THEN LET i == CHOOSE j \in 1..26 : SubSeq(UpperCase, j, j) = c
         IN  SubSeq(LowerCase, i, i)
    ELSE c
RECURSIVE str_lower(_)
str_lower(s) ==
    IF s = "" THEN ""
    ELSE LowerChar(SubSeq(s, 1, 1)) \o str_lower(SubSeq(s, 2, Len(s)))

\* The request headers get_http_headers() returns: either header may be missing.
\* The requests of Spec all come from one caller, who sends the token in
\* either header, or sends none.
Hdr(x_prompt_token, authorization) ==
    [x_prompt_token |-> x_prompt_token, authorization |-> authorization]
Headers ==
    { Hdr(JStr(TokA), None),
      Hdr(None, JStr("Bearer tkA")),
      Hdr(JStr(""), JStr("BEARER tkA")),
      Hdr(None, None),
      Hdr(None, JStr("Bearer ")),
      Hdr(JStr(""), JStr("Basic tkA")),
      Hdr(JStr(TokB), None) }

\* The headers the requests of the server model arrive with: a token in
\* X-Prompt-Token, a token in Authorization, no token, an empty token.
RequestHeaders ==
    { Hdr(JStr(TokA), None),
      Hdr(JStr(""), JStr("BEARER tkA")),
      Hdr(None, None),
      Hdr(None, JStr("Bearer ")) }

\* get_prompt_token(): X-Prompt-Token, else Authorization: Bearer, else None.
get_prompt_token(headers) ==
    IF headers.x_prompt_token # None /\ Truthy(headers.x_prompt_token)
    THEN headers.x_prompt_token
    ELSE LET auth_header == IF headers.authorization = None THEN ""
                            ELSE headers.authorization.v
         IN  IF StartsWith(str_lower(auth_header), "bearer ")
             THEN JStr(SubSeq(auth_header, 8, Len(auth_header)))
             ELSE None

\* A plausible slip: `if token is None`, which lets the empty token through.
NoTokenNoneOnly(token) == token = None

\* `not token`
NoToken(token) == ~Truthy(token)

\* get_prompt_token() for each request the model sends, computed once.
TokenOf == [h \in Headers |-> get_prompt_token(h)]

(***************************************************************************)
(* client.py: what one gateway request can come back with.                 *)
(***************************************************************************)
TransportError == [kind |-> "transport_error", body |-> None]
StatusError == [kind |-> "status_error", body |-> None]
Ok(body) == [kind |-> "ok", body |-> body]

\* The spec's example tool, and a second one without the "function" wrapper.
ToolMsg ==
    JObj([function |-> JObj(
        [name |-> JStr("echo"),
         description |-> JStr("Echo a message"),
         parameters |-> JObj(
            [properties |-> JObj([msg |-> JObj([type |-> JStr("string")])]),
             required |-> JList(<<JStr("msg")>>)])])])
ToolBare == JObj([name |-> JStr("jira_search")])
CatOne == JList(<<ToolMsg, ToolBare>>)
CatEmpty == JList(<<>>)
\* A catalog whose entry is not an object.
CatMalformed == JList(<<JStr("oops")>>)

\* GET /api/mcp/tools
FetchResponses ==
    { TransportError, StatusError,
      Ok(JObj([tools |-> CatOne])),
      Ok(EmptyDict),
      Ok(JObj([tools |-> None])),
      Ok(JObj([tools |-> CatMalformed])),
      Ok(CatEmpty) }

\* POST /api/mcp/execute
ExecResponses ==
    { TransportError, StatusError,
      Ok(JObj([success |-> JBool(TRUE), result |-> JObj([rows |-> JStr("1")])])),
      Ok(JObj([success |-> JBool(TRUE)])),
      Ok(JObj([success |-> JBool(FALSE), message |-> JStr("not found")])),
      Ok(JObj([success |-> JBool(FALSE), message |-> JStr("denied"),
               error |-> JStr("E42"), hint |-> JStr("ask an admin"),
               context |-> JObj([tool |-> JStr("echo")])])),
      Ok(JObj([success |-> JBool(FALSE), error |-> JStr("E42")])),
      Ok(JObj([success |-> JBool(FALSE)])),
      Ok(CatEmpty) }

\* The value a call produces: it returns, or raises.
Returns(value) == [raised |-> FALSE, value |-> value]
Raises(exc) == [raised |-> TRUE, value |-> JStr(exc)]

\* A plausible slip: a failed fetch is swallowed and counts as an empty catalog.
fetch_tools_empty_on_error(response) ==
    IF response.kind = "ok" /\ IsDict(response.body)
    THEN Returns(DictGet(response.body, "tools", CatEmpty))
    ELSE Returns(CatEmpty)

\* WorkoflowClient.fetch_tools, from the response on: raise_for_status(),
\* response.json(), data.get("tools", []).
fetch_tools(response) ==
    CASE response.kind = "transport_error" -> Raises("ConnectError")
      [] response.kind = "status_error" -> Raises("HTTPStatusError")
      [] response.kind = "ok" ->
           IF IsDict(response.body)
           THEN Returns(DictGet(response.body, "tools", CatEmpty))
           ELSE Raises("AttributeError")

\* WorkoflowClient.execute_tool, from the response on.
execute_tool(response) ==
    CASE response.kind = "transport_error" -> Raises("ConnectError")
      [] response.kind = "status_error" -> Raises("HTTPStatusError")
      [] response.kind = "ok" -> Returns(response.body)

(***************************************************************************)
(* server.py: display formatting.                                          *)
(***************************************************************************)
\* The description shown is cut after this many characters.
DescLimit == 50

\* A plausible slip: a description of exactly the limit is cut and marked too.
PropSummaryCutAtLimit(name, prop, required) ==
    LET prop_type == DictGet(prop, "type", JStr("any")).v
        prop_desc == DictGet(prop, "description", JStr("")).v
        star == IF name \in required THEN "*" ELSE ""
    IN  IF Len(prop_desc) >= DescLimit
        THEN prop_type \o star \o ": " \o SubSeq(prop_desc, 1, DescLimit) \o "..."
        ELSE prop_type \o star \o ": " \o prop_desc

\* _summarize_parameters's one-line summary of a property.
PropSummary(name, prop, required) ==
    LET prop_type == DictGet(prop, "type", JStr("any")).v
        prop_desc == DictGet(prop, "description", JStr("")).v
        star == IF name \in required THEN "*" ELSE ""
    IN  IF Len(prop_desc) > DescLimit
        THEN prop_type \o star \o ": " \o SubSeq(prop_desc, 1, DescLimit) \o "..."
        ELSE prop_type \o star \o ": " \o prop_desc

\* Whether _summarize_parameters runs through on this schema (.get and .items()
\* need dicts, set() needs a list).
SchemaOk(schema) ==
    /\ IsDict(schema)
    /\ IsDict(DictGet(schema, "properties", EmptyDict))
    /\ DictGet(schema, "required", JList(<<>>)).t = "list"
    /\ LET properties == DictGet(schema, "properties", EmptyDict)
       IN  \A name \in DOMAIN properties.v : IsDict(properties.v[name])

\* _summarize_parameters(schema), for a schema it runs through on.
summarize_parameters(schema) ==
    LET properties == DictGet(schema, "properties", EmptyDict)
        req == DictGet(schema, "required", JList(<<>>))
        required == {req.v[j].v : j \in 1..Len(req.v)}
    IN  JObj([name \in DOMAIN properties.v |->
                JStr(PropSummary(name, properties.v[name], required))])

\* func = tool.get("function", tool)
FuncOf(tool) == DictGet(tool, "function", tool)

\* Whether one entry of a catalog passes through _format_tools_for_display.
ToolOk(tool) ==
    /\ IsDict(tool)
    /\ IsDict(FuncOf(tool))
    /\ SchemaOk(DictGet(FuncOf(tool), "parameters", EmptyDict))

\* One entry of _format_tools_for_display's result.
FormatTool(tool) ==
    LET func == FuncOf(tool) IN
    JObj([name |-> DictGet(func, "name", JStr("unknown")),
          description |-> DictGet(func, "description", JStr("No description")),
          parameters |-> summarize_parameters(DictGet(func, "parameters", EmptyDict))])

\* _format_tools_for_display(tools): iterating None raises TypeError, .get on an
\* entry that is no dict raises AttributeError.
format_tools_for_display(tools) ==
    IF tools.t # "list" THEN Raises("TypeError")
    ELSE IF \E j \in 1..Len(tools.v) : ~ToolOk(tools.v[j]) THEN Raises("AttributeError")
    ELSE Returns(JList([j \in 1..Len(tools.v) |-> FormatTool(tools.v[j])]))

\* [_get_tool_summary(t) for t in tools]
tool_summaries(tools) ==
    IF tools.t # "list" THEN Raises("TypeError")
    ELSE IF \E j \in 1..Len(tools.v) :
              ~IsDict(tools.v[j]) \/ ~IsDict(FuncOf(tools.v[j]))
         THEN Raises("AttributeError")
    ELSE Returns(JList([j \in 1..Len(tools.v) |->
                          DictGet(FuncOf(tools.v[j]), "name", JStr("unknown"))]))

\* len(tools), an integer, for a list.
JInt(n) == [t |-> "int", v |-> n]

(***************************************************************************)
(* server.py: the bodies the three operations hand to json.dumps.          *)
(***************************************************************************)
ErrorBody(error, hint) == JObj([error |-> JStr(error), hint |-> JStr(hint)])

NoTokenList ==
    ErrorBody("No authentication token provided",
              "Add X-Prompt-Token header to your MCP client configuration. Get your token from /profile/ in Workoflow.")
NoTokenOther ==
    ErrorBody("No authentication token provided",
              "Add X-Prompt-Token header to your MCP client configuration.")
InvalidParameters ==
    ErrorBody("Invalid JSON parameters: JSONDecodeError",
              "Ensure parameters is a valid JSON string.")
FetchFailed(exc) ==
    ErrorBody("Failed to fetch tools: " \o exc,
              "Check if your token is valid and the Workoflow platform is reachable.")
RefreshFailed(exc) ==
    ErrorBody("Failed to refresh tools: " \o exc,
              "Check if your token is valid and the Workoflow platform is reachable.")
ExecutionFailed(exc) ==
    ErrorBody("Tool execution failed: " \o exc,
              "Check if the tool name is correct and parameters are valid.")

\* {"tools": _format_tools_for_display(tools), "count": len(tools), "cached": ...}
ListBody(tools, cached) ==
    LET shown == format_tools_for_display(tools) IN
    IF shown.raised THEN shown
    ELSE Returns(JObj([tools |-> shown.value, count |-> JInt(Len(tools.v)),
                       cached |-> JBool(cached)]))

\* {"message": ..., "tools_count": len(tools), "tools": [names]}
RefreshBody(tools) ==
    IF tools.t # "list" THEN Raises("TypeError")
    ELSE LET names == tool_summaries(tools) IN
         IF names.raised THEN names
         ELSE Returns(JObj([message |-> JStr("Tool cache refreshed successfully"),
                            tools_count |-> JInt(Len(tools.v)),
                            tools |-> names.value]))

\* A plausible slip: the context of a failed execution is left out.
ExecuteBodyWithoutContext(result) ==
    IF ~IsDict(result) THEN Raises("AttributeError")
    ELSE IF Truthy(DictGet(result, "success", None))
    THEN Returns(DictGet(result, "result", EmptyDict))
    ELSE Returns(JObj(
           [error |-> DictGet(result, "message",
                              DictGet(result, "error", JStr("Unknown error"))),
            hint |-> DictGet(result, "hint", JStr("Check the error message for details."))]))

\* workoflow_execute's mapping of the gateway's result.
ExecuteBody(result) ==
    IF ~IsDict(result) THEN Raises("AttributeError")
    ELSE IF Truthy(DictGet(result, "success", None))
    THEN Returns(DictGet(result, "result", EmptyDict))
    ELSE Returns(JObj(
           [error |-> DictGet(result, "message",
                              DictGet(result, "error", JStr("Unknown error"))),
            hint |-> DictGet(result, "hint", JStr("Check the error message for details.")),
            context |-> DictGet(result, "context", EmptyDict)]))

\* The parameters strings workoflow_execute is called with.
ParameterStrings == {"", "{}", "{\"query\": \"x\"}", "not-json"}

\* A plausible slip: a decoding error is swallowed and {} is sent.
parse_parameters_lenient(parameters) ==
    CASE parameters = "{}" -> Returns(EmptyDict)
      [] parameters = "{\"query\": \"x\"}" -> Returns(JObj([query |-> JStr("x")]))
      [] OTHER -> Returns(EmptyDict)

\* json.loads(parameters) if parameters else {}, on the strings above.
parse_parameters(parameters) ==
    IF parameters = "" THEN Returns(EmptyDict)
    ELSE CASE parameters = "{}" -> Returns(EmptyDict)
           [] parameters = "{\"query\": \"x\"}" -> Returns(JObj([query |-> JStr("x")]))
           [] OTHER -> Raises("JSONDecodeError")

(***************************************************************************)
(* The cache driven directly: any token, any filter, any order.            *)
(***************************************************************************)
ToolEcho == JObj([function |-> JObj([name |-> JStr("echo")])])
ToolJira == JObj([function |-> JObj([name |-> JStr("jira")])])
CatEcho == JList(<<ToolEcho>>)
CatTwo == JList(<<ToolEcho, ToolJira>>)
CacheCatalogs == {CatEcho, CatTwo}

\* lastSet when no set is being followed.
NoSet == [set |-> FALSE]

\* call when no cache method has been called yet.
NoCall == "none"

\* resp when the last step produced no response.
NoResp == [req |-> 0, op |-> "none", kind |-> "return", body |-> None]

Reqs == 1..NReq
ServerTokens == {TokA, TokB}

\* wrote after a step that ran no cache.set.
NoWrite == [token |-> "", tools |-> None, over |-> None]

\* The close() calls other than the lifespan's.
Closers == 1..NClose

\* invoked before any registered callable was called.
NoInvoke == [name |-> "", token |-> "", response |-> None, outcome |-> None]

\* toolsCall before any registration call.
NoToolsCall == [op |-> "none", tools |-> <<>>, token |-> ""]

vars == <<store, now, cacheVars, serverVars, toolVars, repeated, moreVars>>

Init ==
    /\ store = [k \in {} |-> None]
    /\ now = 0
    /\ call = NoCall
    /\ ret = None
    /\ removed = 0
    /\ lastSet = NoSet
    /\ TOOL_TYPES \in {"", "x"}
    /\ pc = [r \in Reqs |-> "idle"]
    /\ tok = [r \in Reqs |-> ""]
    /\ gwCalls = 0
    /\ httpClient = "None"
    /\ resp = NoResp
    /\ listed = [k \in ServerTokens |-> <<>>]
    /\ order = <<>>
    /\ passed = [r \in Reqs |-> None]
    /\ wrote = NoWrite
    /\ registry = {}
    /\ toolsCall = NoToolsCall
    /\ toolsRet = <<>>
    /\ invoked = NoInvoke
    /\ repeated = FALSE
    /\ transports = <<>>
    /\ client = 0
    /\ closePc = [c \in Closers |-> "idle"]
    /\ using = [q \in Reqs |-> 0]
    /\ fmtIn = None
    /\ fmtOut = None
    /\ lifespan = "running"

\* The cache alone: the process-wide filter plays no part.
InitCache == Init /\ TOOL_TYPES = ""

\* How many entries a call took out of the store.
Removed(before, after) == Cardinality((DOMAIN before) \ (DOMAIN after))

\* cache.set(token, tool_types, tools)
CacheSet(token, tool_types, tools) ==
    /\ store' = ToolCache_set(store, now, token, tool_types, tools)
    /\ call' = "set"
    /\ ret' = None
    /\ removed' = 0
    /\ lastSet' = [set |-> TRUE, token |-> token, tool_types |-> tool_types,
                   tools |-> tools, t0 |-> now]
    /\ UNCHANGED <<now, serverVars, toolVars, repeated, moreVars>>

\* cache.get(token, tool_types)
CacheGet(token, tool_types) ==
    LET r == ToolCache_get(store, now, token, tool_types) IN
    /\ store' = r.store
    /\ call' = "get"
    /\ ret' = r.ret
    /\ removed' = Removed(store, r.store)
    /\ UNCHANGED <<now, lastSet, serverVars, toolVars, repeated, moreVars>>

\* cache.invalidate(token, tool_types)
CacheInvalidate(token, tool_types) ==
    /\ store' = ToolCache_invalidate(store, token, tool_types)
    /\ call' = IF tool_types = NoFilter THEN "invalidate_token" ELSE "invalidate_key"
    /\ ret' = None
    /\ removed' = Removed(store, store')
    /\ lastSet' = NoSet
    /\ UNCHANGED <<now, serverVars, toolVars, repeated, moreVars>>

\* cache.clear()
CacheClear ==
    /\ store' = ToolCache_clear(store)
    /\ call' = "clear"
    /\ ret' = None
    /\ removed' = Removed(store, store')
    /\ lastSet' = NoSet
    /\ UNCHANGED <<now, serverVars, toolVars, repeated, moreVars>>

\* time.time() advances.
CacheTick ==
    /\ now < MaxTime
    /\ now' = now + 1
    /\ UNCHANGED <<store, cacheVars, serverVars, toolVars, repeated, moreVars>>

NextCache ==
    \/ \E token \in CacheTokens, f \in Filters, c \in CacheCatalogs : CacheSet(token, f, c)
    \/ \E token \in CacheTokens, f \in Filters : CacheGet(token, f)
    \/ \E token \in CacheTokens, f \in Filters : CacheInvalidate(token, f)
    \/ CacheClear
    \/ CacheTick

SpecCache == InitCache /\ [][NextCache]_vars

(***************************************************************************)
(* server.py: the three operations.  Each runs without interruption up to  *)
(* its await of the gateway's response and again from the response to its  *)
(* return; requests interleave only at that await.                         *)
(***************************************************************************)
\* The response of request r's operation: the body it returns as JSON, or the
\* exception that leaves the tool function.
Resp(r, op, outcome) ==
    [req |-> r, op |-> op,
     kind |-> IF outcome.raised THEN "raise" ELSE "return",
     body |-> outcome.value]

\* Requests are interchangeable: a new one takes the lowest free slot.
FreeSlot(r) == pc[r] = "idle" /\ \A q \in Reqs : q < r => pc[q] # "idle"

\* client.fetch_tools / client.execute_tool up to the await of the response:
\* _get_client() creates the transport if there is none, the request is sent.
SendRequest ==
    /\ gwCalls < MaxGwCalls
    /\ gwCalls' = gwCalls + 1
    /\ httpClient' = "open"

\* The step runs no cache.set and sends no fetch.
NoFetch == wrote' = NoWrite /\ UNCHANGED <<order, passed>>

\* Request r's fetch is sent: it is the youngest of the suspended fetches.
FetchSent(r) ==
    /\ order' = Append(order, r)
    /\ wrote' = NoWrite
    /\ UNCHANGED passed

\* Request r's fetch ended in an error: no cache.set runs.
FetchFailedFor(r) ==
    /\ order' = SelectSeq(order, LAMBDA q : q # r)
    /\ passed' = [passed EXCEPT ![r] = None]
    /\ wrote' = NoWrite

\* Request r ran cache.set(token, TOOL_TYPES, tools): the requests of the token
\* that were sent before r and are still suspended have been passed by it.
FetchStored(r, tools) ==
    /\ order' = SelectSeq(order, LAMBDA q : q # r)
    /\ passed' = [q \in Reqs |->
                    IF q = r THEN None
                    ELSE IF /\ tok[q] = tok[r]
                            /\ \E i, j \in 1..Len(order) :
                                  i < j /\ order[i] = q /\ order[j] = r
                         THEN tools
                         ELSE passed[q]]
    /\ wrote' = [token |-> tok[r], tools |-> tools, over |-> passed[r]]

\* A plausible slip: `if cached_tools:` in place of `is not None`.
IsCacheHitTruthy(cached_tools) == Truthy(cached_tools)

\* cached_tools is not None
IsCacheHit(cached_tools) == cached_tools # None

\* try: ... except Exception as e: an exception inside becomes an error body.
Caught(outcome, Failed(_)) ==
    IF outcome.raised THEN Returns(Failed(outcome.value.v)) ELSE outcome

\* workoflow_list_tools, up to the response or the await of the fetch.
ListStart(r, headers) ==
    /\ FreeSlot(r)
    /\ LET token == TokenOf[headers] IN
       IF NoToken(token)
       THEN /\ resp' = Resp(r, "list", Returns(NoTokenList))
            /\ NoFetch
            /\ UNCHANGED <<store, pc, tok, gwCalls, httpClient, listed>>
       ELSE LET got == ToolCache_get(store, now, token.v, JStr(TOOL_TYPES)) IN
            IF IsCacheHit(got.ret)
            THEN /\ store' = got.store
                 /\ resp' = Resp(r, "list", ListBody(got.ret, TRUE))
                 /\ NoFetch
                 /\ UNCHANGED <<pc, tok, gwCalls, httpClient, listed>>
            ELSE /\ SendRequest
                 /\ FetchSent(r)
                 /\ store' = got.store
                 /\ pc' = [pc EXCEPT ![r] = "list_fetch"]
                 /\ tok' = [tok EXCEPT ![r] = token.v]
                 /\ resp' = NoResp
                 /\ UNCHANGED listed
    /\ UNCHANGED <<now, cacheVars, TOOL_TYPES, toolVars, repeated, moreVars>>

\* workoflow_list_tools, from the gateway's response on.
ListDone(r, response) ==
    /\ pc[r] = "list_fetch"
    /\ LET tools == fetch_tools(response) IN
       IF tools.raised
       THEN /\ resp' = Resp(r, "list", Caught(tools, FetchFailed))
            /\ FetchFailedFor(r)
            /\ UNCHANGED <<store, listed>>
       ELSE LET body == ListBody(tools.value, FALSE) IN
            /\ store' = ToolCache_set(store, now, tok[r], JStr(TOOL_TYPES), tools.value)
            /\ FetchStored(r, tools.value)
            /\ resp' = Resp(r, "list", Caught(body, FetchFailed))
            /\ listed' = [listed EXCEPT ![tok[r]] =
                            Append(@, [answered |-> ~body.raised, t0 |-> now,
                                       body |-> body.value])]
    /\ pc' = [pc EXCEPT ![r] = "idle"]
    /\ tok' = [tok EXCEPT ![r] = ""]
    /\ UNCHANGED <<now, cacheVars, TOOL_TYPES, gwCalls, httpClient, toolVars, repeated, moreVars>>

\* workoflow_refresh, up to the response or the await of the fetch.
RefreshStart(r, headers) ==
    /\ FreeSlot(r)
    /\ LET token == TokenOf[headers] IN
       IF NoToken(token)
       THEN /\ resp' = Resp(r, "refresh", Returns(NoTokenOther))
            /\ NoFetch
            /\ UNCHANGED <<store, pc, tok, gwCalls, httpClient, listed>>
       ELSE /\ SendRequest
            /\ FetchSent(r)
            /\ store' = ToolCache_invalidate(store, token.v, NoFilter)
            /\ pc' = [pc EXCEPT ![r] = "refresh_fetch"]
            /\ tok' = [tok EXCEPT ![r] = token.v]
            /\ listed' = [listed EXCEPT ![token.v] = <<>>]
            /\ resp' = NoResp
    /\ UNCHANGED <<now, cacheVars, TOOL_TYPES, toolVars, repeated, moreVars>>

\* workoflow_refresh, from the gateway's response on.
RefreshDone(r, response) ==
    /\ pc[r] = "refresh_fetch"
    /\ LET tools == fetch_tools(response) IN
       IF tools.raised
       THEN /\ resp' = Resp(r, "refresh", Caught(tools, RefreshFailed))
            /\ FetchFailedFor(r)
            /\ UNCHANGED store
       ELSE /\ store' = ToolCache_set(store, now, tok[r], JStr(TOOL_TYPES), tools.value)
            /\ FetchStored(r, tools.value)
            /\ resp' = Resp(r, "refresh", Caught(RefreshBody(tools.value), RefreshFailed))
    /\ listed' = [listed EXCEPT ![tok[r]] = <<>>]
    /\ pc' = [pc EXCEPT ![r] = "idle"]
    /\ tok' = [tok EXCEPT ![r] = ""]
    /\ UNCHANGED <<now, cacheVars, TOOL_TYPES, gwCalls, httpClient, toolVars, repeated, moreVars>>

\* workoflow_execute's try block from the gateway's response on, and its
\* except branch.
ExecuteOutcome(response) ==
    LET result == execute_tool(response) IN
    IF result.raised THEN Caught(result, ExecutionFailed)
    ELSE Caught(ExecuteBody(result.value), ExecutionFailed)

\* workoflow_execute, up to the response or the await of the execution.
ExecStart(r, headers, parameters) ==
    /\ FreeSlot(r)
    /\ LET token == TokenOf[headers]
           params == parse_parameters(parameters)
       IN  IF NoToken(token)
           THEN /\ resp' = Resp(r, "execute", Returns(NoTokenOther))
                /\ UNCHANGED <<pc, gwCalls, httpClient>>
           ELSE IF params.raised
           THEN /\ resp' = Resp(r, "execute", Returns(InvalidParameters))
                /\ UNCHANGED <<pc, gwCalls, httpClient>>
           ELSE /\ SendRequest
                /\ pc' = [pc EXCEPT ![r] = "execute"]
                /\ resp' = NoResp
    /\ NoFetch
    /\ UNCHANGED <<store, now, cacheVars, TOOL_TYPES, tok, listed, toolVars, repeated, moreVars>>

\* workoflow_execute, from the gateway's response on.
ExecDone(r, response) ==
    /\ pc[r] = "execute"
    /\ resp' = Resp(r, "execute", ExecuteOutcome(response))
    /\ pc' = [pc EXCEPT ![r] = "idle"]
    /\ NoFetch
    /\ UNCHANGED <<store, now, cacheVars, TOOL_TYPES, tok, gwCalls, httpClient, listed, toolVars, repeated, moreVars>>

\* time.time() advances; what list calls stored longer ago than the TTL is no
\* longer followed.
Tick ==
    /\ now < MaxTime
    /\ now' = now + 1
    /\ listed' = [k \in ServerTokens |->
                    SelectSeq(listed[k], LAMBDA m : now' - m.t0 <= TTL)]
    /\ resp' = NoResp
    /\ NoFetch
    /\ UNCHANGED <<store, cacheVars, TOOL_TYPES, pc, tok, gwCalls, httpClient, toolVars, repeated, moreVars>>

\* The executions that run beside the list and refresh calls of Spec: one
\* well-formed parameters string, a failing and a succeeding gateway.
BesideParameters == {"{}"}
BesideExecResponses ==
    { TransportError,
      Ok(JObj([success |-> JBool(TRUE), result |-> JObj([rows |-> JStr("1")])])) }

Next ==
    \/ \E r \in Reqs, h \in RequestHeaders : ListStart(r, h)
    \/ \E r \in Reqs, response \in FetchResponses : ListDone(r, response)
    \/ \E r \in Reqs, h \in RequestHeaders : RefreshStart(r, h)
    \/ \E r \in Reqs, response \in FetchResponses : RefreshDone(r, response)
    \/ \E r \in Reqs, h \in RequestHeaders, p \in BesideParameters : ExecStart(r, h, p)
    \/ \E r \in Reqs, response \in BesideExecResponses : ExecDone(r, response)
    \/ Tick

Spec == Init /\ [][Next]_vars

\* The list and refresh calls that run beside the executions of SpecExec: one
\* header with a token, a failing gateway and one that returns a catalog.
BesideHeaders == {Hdr(JStr(TokA), None)}
BesideFetchResponses == {TransportError, Ok(JObj([tools |-> CatOne]))}

\* The server with every parameters string and every execution result.
NextExec ==
    \/ \E r \in Reqs, h \in BesideHeaders : ListStart(r, h)
    \/ \E r \in Reqs, response \in BesideFetchResponses : ListDone(r, response)
    \/ \E r \in Reqs, h \in BesideHeaders : RefreshStart(r, h)
    \/ \E r \in Reqs, response \in BesideFetchResponses : RefreshDone(r, response)
    \/ \E r \in Reqs, h \in RequestHeaders, p \in ParameterStrings : ExecStart(r, h, p)
    \/ \E r \in Reqs, response \in ExecResponses : ExecDone(r, response)
    \/ Tick

SpecExec == Init /\ [][NextExec]_vars

\* Two users: the headers of each and of a request without a token, and what
\* the gateway answers to the fetch of each (it knows the user by the token).
TokenHeaders == {Hdr(JStr(TokA), None), Hdr(JStr(TokB), None), Hdr(None, None)}
FetchResponsesFor(token) ==
    IF token = TokA
    THEN {TransportError, Ok(JObj([tools |-> CatOne])), Ok(JObj([tools |-> CatMalformed]))}
    ELSE IF token = TokB
    THEN {StatusError, Ok(JObj([tools |-> CatEcho])), Ok(JObj([tools |-> CatTwo]))}
    ELSE {}

\* The server with the requests of two users interleaved.
NextTokens ==
    \/ \E r \in Reqs, h \in TokenHeaders : ListStart(r, h)
    \/ \E r \in Reqs : \E response \in FetchResponsesFor(tok[r]) : ListDone(r, response)
    \/ \E r \in Reqs, h \in TokenHeaders : RefreshStart(r, h)
    \/ \E r \in Reqs : \E response \in FetchResponsesFor(tok[r]) : RefreshDone(r, response)
    \/ \E r \in Reqs, h \in TokenHeaders, p \in BesideParameters : ExecStart(r, h, p)
    \/ \E r \in Reqs, response \in BesideExecResponses : ExecDone(r, response)
    \/ Tick

SpecTokens == Init /\ [][NextTokens]_vars

(***************************************************************************)
(* tools.py: dynamic registration with the protocol server.                *)
(***************************************************************************)
\* Tool definitions handed to the registration: wrapped in "function" or bare,
\* and two that have no usable name.
ToolDefs ==
    { JObj([function |-> JObj([name |-> JStr("echo"),
                               description |-> JStr("Echo a message")])]),
      JObj([name |-> JStr("jira_search")]),
      JObj([function |-> JObj([description |-> JStr("nameless")])]),
      JObj([name |-> JStr("")]) }

\* The catalogs of at most MaxTools definitions, and the name lists of at most
\* MaxTools names, one of which is never registered.
ToolCatalogs == UNION {[1..n -> ToolDefs] : n \in 0..MaxTools}
NameLists == UNION {[1..n -> {"echo", "jira_search", "gone"}] : n \in 0..MaxTools}

\* tool_name = func_def.get("name")
ToolName(tool_def) == DictGet(FuncOf(tool_def), "name", None)

\* The protocol server's registration of a callable under a name: it fails
\* when the name is taken, and adds the callable (with its bound token) when not.
add_tool_from_fn(reg, name, prompt_token) ==
    IF \E e \in reg : e.name = name
    THEN [raised |-> TRUE, reg |-> reg]
    ELSE [raised |-> FALSE, reg |-> reg \cup {[name |-> name, token |-> prompt_token]}]

\* The protocol server's removal of a name: it fails when the name is unknown.
remove_tool(reg, name) ==
    IF \E e \in reg : e.name = name
    THEN [raised |-> FALSE, reg |-> {e \in reg : e.name # name}]
    ELSE [raised |-> TRUE, reg |-> reg]

\* A plausible slip: the name is appended whether or not the registration
\* went through.
RECURSIVE register_loop_append_always(_, _, _, _)
register_loop_append_always(reg, registered_names, tools, prompt_token) ==
    IF tools = <<>> THEN [reg |-> reg, registered_names |-> registered_names]
    ELSE LET tool_name == ToolName(Head(tools)) IN
         IF ~Truthy(tool_name)
         THEN register_loop_append_always(reg, registered_names, Tail(tools), prompt_token)
         ELSE LET added == add_tool_from_fn(reg, tool_name.v, prompt_token) IN
              register_loop_append_always(added.reg, Append(registered_names, tool_name.v),
                                          Tail(tools), prompt_token)

\* The loop of register_platform_tools over the remaining tools.
RECURSIVE register_loop(_, _, _, _)
register_loop(reg, registered_names, tools, prompt_token) ==
    IF tools = <<>> THEN [reg |-> reg, registered_names |-> registered_names]
    ELSE LET tool_name == ToolName(Head(tools)) IN
         IF ~Truthy(tool_name)
         THEN register_loop(reg, registered_names, Tail(tools), prompt_token)
         ELSE LET added == add_tool_from_fn(reg, tool_name.v, prompt_token) IN
              IF added.raised
              THEN register_loop(reg, registered_names, Tail(tools), prompt_token)
              ELSE register_loop(added.reg, Append(registered_names, tool_name.v),
                                 Tail(tools), prompt_token)

\* register_platform_tools(mcp, tools, prompt_token)
register_platform_tools(reg, tools, prompt_token) ==
    register_loop(reg, <<>>, tools, prompt_token)

\* A plausible slip: no try/except around remove_tool, so the first name that
\* is not registered ends the loop.
RECURSIVE unregister_until_missing(_, _)
unregister_until_missing(reg, tool_names) ==
    IF tool_names = <<>> THEN reg
    ELSE LET gone == remove_tool(reg, Head(tool_names)) IN
         IF gone.raised THEN reg
         ELSE unregister_until_missing(gone.reg, Tail(tool_names))

\* unregister_all_platform_tools(mcp, tool_names)
RECURSIVE unregister_all_platform_tools(_, _)
unregister_all_platform_tools(reg, tool_names) ==
    IF tool_names = <<>> THEN reg
    ELSE unregister_all_platform_tools(remove_tool(reg, Head(tool_names)).reg,
                                       Tail(tool_names))

\* await register_platform_tools(mcp, tools, token): it never suspends.
RegisterAll(tools, prompt_token) ==
    LET done == register_platform_tools(registry, tools, prompt_token) IN
    /\ registry' = done.reg
    /\ toolsCall' = [op |-> "register", tools |-> tools, token |-> prompt_token]
    /\ toolsRet' = done.registered_names
    /\ repeated' = (toolsCall' = toolsCall)
    /\ UNCHANGED <<store, now, cacheVars, serverVars, moreVars, invoked>>

\* unregister_all_platform_tools(mcp, names)
UnregisterAll(tool_names) ==
    /\ registry' = unregister_all_platform_tools(registry, tool_names)
    /\ toolsCall' = [op |-> "unregister", tools |-> tool_names, token |-> ""]
    /\ toolsRet' = <<>>
    /\ repeated' = (toolsCall' = toolsCall)
    /\ UNCHANGED <<store, now, cacheVars, serverVars, moreVars, invoked>>

\* tool_executor's except branch.
ToolExecutorFailed(exc) ==
    ErrorBody(exc, "Check if the platform is reachable and your token is valid.")

\* tool_executor's mapping of the gateway's result.
ToolExecutorBody(result) ==
    IF ~IsDict(result) THEN Raises("AttributeError")
    ELSE IF Truthy(DictGet(result, "success", None))
    THEN Returns(DictGet(result, "result", EmptyDict))
    ELSE Returns(JObj(
           [error |-> DictGet(result, "message",
                              DictGet(result, "error", JStr("Unknown error"))),
            hint |-> DictGet(result, "hint", JStr(""))]))

\* The callable create_tool_function returns, from the gateway's response on.
tool_executor(response) ==
    LET result == execute_tool(response) IN
    IF result.raised THEN Caught(result, ToolExecutorFailed)
    ELSE Caught(ToolExecutorBody(result.value), ToolExecutorFailed)

\* The protocol server calls the callable registered as e; the gateway
\* answers its execute_tool with the response.
InvokeTool(name, prompt_token, response) ==
    /\ [name |-> name, token |-> prompt_token] \in registry
    /\ invoked' = [name |-> name, token |-> prompt_token, response |-> response,
                   outcome |-> tool_executor(response)]
    /\ toolsCall' = [op |-> "invoke", tools |-> <<>>, token |-> prompt_token]
    /\ toolsRet' = <<>>
    /\ repeated' = FALSE
    /\ UNCHANGED <<store, now, cacheVars, serverVars, moreVars, registry>>

NextTools ==
    \/ \E tools \in ToolCatalogs, token \in ServerTokens : RegisterAll(tools, token)
    \/ \E names \in NameLists : UnregisterAll(names)

SpecTools == InitCache /\ [][NextTools]_vars

\* The registered callables called: two catalogs to register, one list of
\* names to remove, every execution result.
CallableCatalogs ==
    { <<JObj([name |-> JStr("jira_search")])>>,
      <<JObj([function |-> JObj([name |-> JStr("echo"),
                                 description |-> JStr("Echo a message")])]),
        JObj([name |-> JStr("jira_search")])>> }
CallableNames == {"echo", "jira_search"}

NextCallables ==
    \/ \E tools \in CallableCatalogs, token \in ServerTokens : RegisterAll(tools, token)
    \/ UnregisterAll(<<"jira_search">>)
    \/ \E name \in CallableNames, token \in ServerTokens, response \in ExecResponses :
          InvokeTool(name, token, response)

SpecCallables == InitCache /\ [][NextCallables]_vars

(***************************************************************************)
(* client.py and the lifespan of server.py: the shared transport.          *)
(***************************************************************************)
\* httpx.AsyncClient(timeout=60.0): a new, open transport.
NewTransport == [is_closed |-> FALSE, acloses |-> 0]

\* self._client is None or self._client.is_closed
NoUsableTransport(ref, ts) == ref = 0 \/ ts[ref].is_closed

\* WorkoflowClient._get_client: the transport the request gets, the reference
\* and the transports it leaves.
get_transport(ref, ts) ==
    IF NoUsableTransport(ref, ts)
    THEN [ref |-> Len(ts) + 1, transports |-> Append(ts, NewTransport)]
    ELSE [ref |-> ref, transports |-> ts]

\* self._client is not None and not self._client.is_closed
CloseWanted(ref, ts) == ref # 0 /\ ~ts[ref].is_closed

\* self._client.aclose() up to its await: httpx marks the client closed first,
\* then awaits the closing of the connection pool.
aclose(ref, ts) ==
    [ts EXCEPT ![ref] = [is_closed |-> TRUE, acloses |-> @.acloses + 1]]

\* fetch_tools / execute_tool up to the await of their request: client = await
\* self._get_client(), which does not suspend, then client.get / client.post.
ClientRequest(q, op) ==
    /\ lifespan = "running"
    /\ using[q] = 0
    /\ \A p \in Reqs : p < q => using[p] # 0
    /\ LET got == get_transport(client, transports) IN
       /\ Len(got.transports) <= MaxTransports
       /\ client' = got.ref
       /\ transports' = got.transports
       /\ using' = [using EXCEPT ![q] = got.ref]
    /\ UNCHANGED <<closePc, lifespan>>
    /\ UNCHANGED <<store, now, cacheVars, serverVars, toolVars, repeated, formatVars>>

\* The request's await ends, with a response or with an error.
ClientResponse(q) ==
    /\ using[q] # 0
    /\ using' = [using EXCEPT ![q] = 0]
    /\ UNCHANGED <<transports, client, closePc, lifespan>>
    /\ UNCHANGED <<store, now, cacheVars, serverVars, toolVars, repeated, formatVars>>

\* WorkoflowClient.close up to its await, or to its return when there is
\* nothing to close.
CloseStart(c) ==
    /\ closePc[c] = "idle"
    /\ IF CloseWanted(client, transports)
       THEN /\ transports' = aclose(client, transports)
            /\ closePc' = [closePc EXCEPT ![c] = "aclose"]
       ELSE UNCHANGED <<transports, closePc>>
    /\ UNCHANGED <<client, using, lifespan>>
    /\ UNCHANGED <<store, now, cacheVars, serverVars, toolVars, repeated, formatVars>>

\* WorkoflowClient.close after its await: self._client = None.
CloseDone(c) ==
    /\ closePc[c] = "aclose"
    /\ client' = 0
    /\ closePc' = [closePc EXCEPT ![c] = "idle"]
    /\ UNCHANGED <<transports, using, lifespan>>
    /\ UNCHANGED <<store, now, cacheVars, serverVars, toolVars, repeated, formatVars>>

\* lifespan after the yield, the server shutting down in the regular way:
\* client = get_client(); await client.close(), up to the await in close.
LifespanShutdown ==
    /\ lifespan = "running"
    /\ IF CloseWanted(client, transports)
       THEN /\ transports' = aclose(client, transports)
            /\ lifespan' = "closing"
       ELSE /\ lifespan' = "ended"
            /\ UNCHANGED transports
    /\ UNCHANGED <<client, closePc, using>>
    /\ UNCHANGED <<store, now, cacheVars, serverVars, toolVars, repeated, formatVars>>

\* The lifespan's close() after its await, and the end of the lifespan.
LifespanClosed ==
    /\ lifespan = "closing"
    /\ client' = 0
    /\ lifespan' = "ended"
    /\ UNCHANGED <<transports, closePc, using>>
    /\ UNCHANGED <<store, now, cacheVars, serverVars, toolVars, repeated, formatVars>>

\* An error ends the running server: the context manager throws it into the
\* generator at its yield, which no try/finally surrounds, so the generator
\* ends there and the lines after the yield do not run.
LifespanError ==
    /\ lifespan = "running"
    /\ lifespan' = "failed"
    /\ UNCHANGED <<transports, client, closePc, using>>
    /\ UNCHANGED <<store, now, cacheVars, serverVars, toolVars, repeated, formatVars>>

NextClient ==
    \/ \E q \in Reqs, op \in {"fetch_tools", "execute_tool"} : ClientRequest(q, op)
    \/ \E q \in Reqs : ClientResponse(q)
    \/ \E c \in Closers : CloseStart(c)
    \/ \E c \in Closers : CloseDone(c)
    \/ LifespanShutdown
    \/ LifespanClosed
    \/ LifespanError

SpecClient == InitCache /\ [][NextClient]_vars

(***************************************************************************)
(* server.py: _summarize_parameters on its own.                            *)
(***************************************************************************)
\* Descriptions: the first n characters of a text longer than the limit.
DescText == "abcdefghijklmnopqrstuvwxyzABCDEFGHIJKLMNOPQRSTUVWXYZ0123456789"
Desc(n) == SubSeq(DescText, 1, n)

\* The properties a schema may give a parameter: with or without a type, with
\* no description or one of length 0, limit - 1, limit, limit + 1.
SchemaProps ==
    {JObj(<<>>), JObj([type |-> JStr("string")])}
    \cup {JObj([description |-> JStr(Desc(n))]) :
            n \in {0, DescLimit - 1, DescLimit, DescLimit + 1}}
    \cup {JObj([type |-> JStr("string"), description |-> JStr(Desc(n))]) :
            n \in {0, DescLimit - 1, DescLimit, DescLimit + 1}}

\* The "properties" objects over the parameter names q and n.
SchemaProperties ==
    {JObj(<<>>)}
    \cup {JObj([q |-> p]) : p \in SchemaProps}
    \cup {JObj([q |-> p, n |-> o]) : p \in SchemaProps, o \in SchemaProps}

\* The schemas: with and without "required", which may name a parameter that
\* the properties do not have.
Schemas ==
    {JObj([properties |-> ps]) : ps \in SchemaProperties}
    \cup {JObj([properties |-> ps, required |-> JList(req)]) :
            ps \in SchemaProperties,
            req \in {<<>>, <<JStr("q")>>, <<JStr("n"), JStr("zz")>>}}

\* _summarize_parameters(schema)
Summarize(schema) ==
    /\ fmtIn' = schema
    /\ fmtOut' = summarize_parameters(schema)
    /\ UNCHANGED <<store, now, cacheVars, serverVars, toolVars, repeated, clientVars>>

NextFormat == \E schema \in Schemas : Summarize(schema)

SpecFormat == InitCache /\ [][NextFormat]_vars

(***************************************************************************)
(* Claims about the cache (checked under SpecCache).                       *)
(***************************************************************************)
\* What get(token, tool_types) would return in store st at time t.
Peek(st, t, token, tool_types) == ToolCache_get(st, t, token, tool_types).ret

\* C1 (TTL expiry): when get(token, filter) is called after set(token, filter,
\* catalog) at t0 with only get calls (on any keys) and the passing of time in
\* between, it returns the catalog if now - t0 <= TTL; if now - t0 > TTL it
\* returns None and the key is not in the store afterwards.
C1_TTLExpiry ==
    [][( /\ lastSet.set
         /\ CacheGet(lastSet.token, lastSet.tool_types) )
         => IF now - lastSet.t0 <= TTL
            THEN ret' = lastSet.tools
            ELSE /\ ret' = None
                 /\ make_key(lastSet.token, lastSet.tool_types) \notin DOMAIN store'
      ]_vars

\* C1 witness: a get of the key last set ran after the TTL had passed, returned
\* None and took the entry out of the store.
C1_Witness ==
    /\ call = "get"
    /\ lastSet.set
    /\ now - lastSet.t0 > TTL
    /\ ret = None
    /\ removed = 1
    /\ make_key(lastSet.token, lastSet.tool_types) \notin DOMAIN store

\* (A set step records its arguments in lastSet, which is how the step's
\* tokenA, filterX and catalog are named below.)
\* C2 as stated (key isolation for any two distinct filter values, the empty
\* string, "all" and absent included): set(tokenA, filterX, c) changes neither
\* what get(tokenA, filterY) returns, filterY # filterX, nor what
\* get(tokenB, filterX) returns, tokenB # tokenA.
C2_Original ==
    [][( /\ lastSet'.set
         /\ CacheSet(lastSet'.token, lastSet'.tool_types, lastSet'.tools) )
         => LET tokenA == lastSet'.token
                filterX == lastSet'.tool_types
            IN  /\ \A filterY \in Filters \ {filterX} :
                     Peek(store', now', tokenA, filterY) = Peek(store, now, tokenA, filterY)
                /\ \A tokenB \in CacheTokens \ {tokenA} :
                     Peek(store', now', tokenB, filterX) = Peek(store, now, tokenB, filterX)
      ]_vars

\* The key segment a filter value is stored under: absent and "" both read "all".
Segment(tool_types) ==
    IF tool_types \in {NoFilter, JStr("")} THEN "all" ELSE tool_types.v

\* C2 amended (key isolation): set(tokenA, filterX, c) changes neither what
\* get(tokenA, filterY) returns for any filterY whose key segment differs from
\* filterX's (absent, "" and "all" share the segment "all"), nor what
\* get(tokenB, filterX) returns for tokenB # tokenA.
C2_KeyIsolation ==
    [][( /\ lastSet'.set
         /\ CacheSet(lastSet'.token, lastSet'.tool_types, lastSet'.tools) )
         => LET tokenA == lastSet'.token
                filterX == lastSet'.tool_types
            IN  /\ \A filterY \in Filters :
                     Segment(filterY) # Segment(filterX)
                     => Peek(store', now', tokenA, filterY) = Peek(store, now, tokenA, filterY)
                /\ \A tokenB \in CacheTokens \ {tokenA} :
                     Peek(store', now', tokenB, filterX) = Peek(store, now, tokenB, filterX)
      ]_vars

\* C2 witness: a set has just run while the same token holds a live entry under
\* another segment and another token holds a live entry under the same filter,
\* both with a catalog other than the one set.
C2_Witness ==
    /\ call = "set"
    /\ lastSet.set
    /\ \E filterY \in Filters :
         /\ Segment(filterY) # Segment(lastSet.tool_types)
         /\ Peek(store, now, lastSet.token, filterY) \notin {None, lastSet.tools}
    /\ \E tokenB \in CacheTokens \ {lastSet.token} :
         Peek(store, now, tokenB, lastSet.tool_types) \notin {None, lastSet.tools}

\* C3 (bulk invalidation): invalidate(tokenA) without a filter removes every
\* entry stored under tokenA, whatever its filter, and leaves every entry of
\* every other token in place with its catalog and timestamp.
C3_BulkInvalidation ==
    [][\A tokenA \in CacheTokens :
         (call' = "invalidate_token" /\ CacheInvalidate(tokenA, NoFilter))
         => /\ \A f \in Filters : make_key(tokenA, f) \notin DOMAIN store'
            /\ \A tokenB \in CacheTokens \ {tokenA}, f \in Filters :
                 make_key(tokenB, f) \in DOMAIN store
                 => /\ make_key(tokenB, f) \in DOMAIN store'
                    /\ store'[make_key(tokenB, f)] = store[make_key(tokenB, f)]
      ]_vars

\* C3 witness: a bulk invalidation has just removed two entries (two filter
\* variants of its token) and an entry of another token is still stored.
C3_Witness ==
    /\ call = "invalidate_token"
    /\ removed = 2
    /\ DOMAIN store # {}

\* C4 as stated (token non-recoverability): no stored cache key contains the
\* raw token it was created from as a substring.
C4_TokenNotInKey ==
    \A token \in CacheTokens, f \in Filters :
        make_key(token, f) \in DOMAIN store => ~Contains(make_key(token, f), token)

(***************************************************************************)
(* Claims about the three operations (checked under Spec).                 *)
(***************************************************************************)
\* The step is a list call with a token that answers from the cache what the
\* earlier answer m showed: cached=true, the same tools and count, no request
\* sent and nothing left in flight.
AnswersFromCache(m) ==
    /\ resp'.op = "list"
    /\ resp'.kind = "return"
    /\ {"tools", "count", "cached"} \subseteq DOMAIN resp'.body.v
    /\ resp'.body.v.cached = JBool(TRUE)
    /\ resp'.body.v.tools = m.body.v.tools
    /\ resp'.body.v.count = m.body.v.count
    /\ gwCalls' = gwCalls
    /\ pc' = pc

\* The earlier list calls of the token that fetched and answered cached=false
\* no longer ago than the TTL, with no refresh since.
AnsweredFresh(token) ==
    {j \in 1..Len(listed[token]) :
        listed[token][j].answered /\ now - listed[token][j].t0 <= TTL}

\* The headers of the model that carry a token, and those that carry none.
WithToken == {h \in RequestHeaders : Truthy(TokenOf[h])}
WithoutToken == RequestHeaders \ WithToken

\* C5 as stated (cache hit on listing): after a list call fetched a catalog and
\* answered cached=false, a later list call with the same token within the
\* TTL, no refresh or invalidation in between, answers cached=true with the
\* same catalog and count and sends no gateway request.
C5_Original ==
    [][\A r \in Reqs : FreeSlot(r) => \A h \in WithToken :
         ListStart(r, h)
         => \A j \in AnsweredFresh(TokenOf[h].v) :
                AnswersFromCache(listed[TokenOf[h].v][j])
      ]_vars

\* C5 amended (cache hit on listing): the same, when also no other fetch for
\* that token completed in between, that is, for the list call that stored
\* the token's catalog last.
C5_CacheHit ==
    [][\A r \in Reqs : FreeSlot(r) => \A h \in WithToken :
         ListStart(r, h)
         => \A j \in AnsweredFresh(TokenOf[h].v) :
                j = Len(listed[TokenOf[h].v])
                => AnswersFromCache(listed[TokenOf[h].v][j])
      ]_vars

\* C5 witness: a list call has just answered cached=true with the tools and the
\* count of the list call that fetched them.
C5_Witness ==
    /\ resp.op = "list"
    /\ resp.kind = "return"
    /\ "cached" \in DOMAIN resp.body.v
    /\ resp.body.v.cached = JBool(TRUE)
    /\ Len(listed[TokA]) > 0
    /\ listed[TokA][Len(listed[TokA])].answered
    /\ listed[TokA][Len(listed[TokA])].body.v.tools = resp.body.v.tools
    /\ resp.body.v.count = JInt(2)

\* C6 as stated (totality): no call of workoflow_list_tools, workoflow_execute
\* or workoflow_refresh lets an exception escape; each returns a response.
C6_Totality == resp.kind # "raise"

\* The parameter strings of the model that are JSON documents.
ValidJson == {"{}", "{\"query\": \"x\"}"}

\* The step answers with an error object and leaves gateway, cache and the
\* requests in flight alone.
ErrorAndNothingElse ==
    /\ resp'.kind = "return"
    /\ IsDict(resp'.body)
    /\ {"error", "hint"} \subseteq DOMAIN resp'.body.v
    /\ gwCalls' = gwCalls
    /\ store' = store
    /\ pc' = pc

\* C7 as stated (invalid parameters short-circuit): workoflow_execute called
\* with a token and a parameters string that is not valid JSON returns an
\* error object with error and hint, sends no gateway request and leaves the
\* cache unchanged.
C7_Original ==
    [][\A r \in Reqs : FreeSlot(r) =>
         \A h \in WithToken, p \in ParameterStrings \ ValidJson :
            ExecStart(r, h, p) => ErrorAndNothingElse
      ]_vars

\* C7 amended (invalid parameters short-circuit): the same for a non-empty
\* parameters string that is not valid JSON (the empty string is executed
\* with the parameters {}).
C7_InvalidParameters ==
    [][\A r \in Reqs : FreeSlot(r) =>
         \A h \in WithToken, p \in ParameterStrings \ (ValidJson \cup {""}) :
            ExecStart(r, h, p) => ErrorAndNothingElse
      ]_vars

\* C7 witness: workoflow_execute has just answered that the parameters are
\* invalid, while the cache holds an entry.
C7_Witness ==
    /\ resp.op = "execute"
    /\ resp.body = InvalidParameters
    /\ DOMAIN store # {}

\* C8 (missing token): when the headers yield no token (None, or the empty
\* string), each of the three operations returns an error object with error
\* and hint, sends no gateway request and leaves the cache store unchanged.
C8_MissingToken ==
    [][\A r \in Reqs : FreeSlot(r) => \A h \in WithoutToken :
         ( \/ ListStart(r, h)
           \/ RefreshStart(r, h)
           \/ \E p \in ParameterStrings : ExecStart(r, h, p) )
         => ErrorAndNothingElse
      ]_vars

\* C8 witness: workoflow_refresh has just answered that there is no token while
\* the cache holds an entry, which it left in place.
C8_Witness ==
    /\ resp.op = "refresh"
    /\ resp.body = NoTokenOther
    /\ DOMAIN store # {}

\* C9 (execution result mapping): for a gateway result with success true the
\* response is exactly its result payload; with success false it is an object
\* with exactly the keys error, hint and context, error being the result's
\* message and context the result's context, {} when it has none.
C9_ResultMapping ==
    [][\A r \in Reqs : pc[r] = "execute" => \A response \in ExecResponses :
         (response.kind = "ok" /\ IsDict(response.body) /\ ExecDone(r, response))
         => LET result == response.body.v IN
            /\ resp'.kind = "return"
            /\ IF "success" \in DOMAIN result /\ result.success = JBool(TRUE)
               THEN resp'.body = IF "result" \in DOMAIN result THEN result.result
                                 ELSE EmptyDict
               ELSE /\ DOMAIN resp'.body.v = {"error", "hint", "context"}
                    /\ "message" \in DOMAIN result
                       => resp'.body.v.error = result.message
                    /\ resp'.body.v.context =
                          IF "context" \in DOMAIN result THEN result.context
                          ELSE EmptyDict
      ]_vars

\* C9 witness: the spec's scenario, {success: false, message: "not found"},
\* has just been answered with error "not found" and an empty context.
C9_Witness ==
    /\ resp.op = "execute"
    /\ resp.kind = "return"
    /\ DOMAIN resp.body.v = {"error", "hint", "context"}
    /\ resp.body.v.error = JStr("not found")
    /\ resp.body.v.context = EmptyDict

(***************************************************************************)
(* Claims about the registration (checked under SpecTools).                *)
(***************************************************************************)
\* The usable names of a catalog, in order, repeated as the catalog repeats them.
RECURSIVE CatalogNames(_)
CatalogNames(tools) ==
    IF tools = <<>> THEN <<>>
    ELSE IF Truthy(ToolName(Head(tools)))
         THEN <<ToolName(Head(tools)).v>> \o CatalogNames(Tail(tools))
         ELSE CatalogNames(Tail(tools))

Range(seq) == {seq[j] : j \in 1..Len(seq)}
RegisteredNames(reg) == {e.name : e \in reg}

\* C10 (duplicates are skipped, not overwriting): a call of
\* register_platform_tools leaves every earlier registration in place with its
\* bound token, registers every name of the catalog that was not registered,
\* under this call's token, returns exactly the names it registered, each
\* once and none that was registered before; and at no time do two
\* registrations share a name.
C10_DuplicateSkipped ==
    /\ [][LET tools == toolsCall'.tools
              token == toolsCall'.token IN
            (toolsCall'.op = "register" /\ RegisterAll(tools, token))
            => /\ registry \subseteq registry'
               /\ Range(CatalogNames(tools)) \subseteq RegisteredNames(registry')
               /\ Range(toolsRet') = RegisteredNames(registry') \ RegisteredNames(registry)
               /\ Range(toolsRet') = Range(CatalogNames(tools)) \ RegisteredNames(registry)
               /\ \A j, k \in 1..Len(toolsRet') : toolsRet'[j] = toolsRet'[k] => j = k
               /\ \A e \in registry' \ registry : e.token = token
         ]_vars
    /\ [](\A e, f \in registry : e.name = f.name => e = f)

\* C10 witness: a registration call for one token has just met a catalog with a
\* name that another token had registered, and one more name: the earlier
\* registration is still bound to the other token, only the new name was
\* returned.
C10_Witness ==
    /\ toolsCall.op = "register"
    /\ toolsCall.token = TokB
    /\ CatalogNames(toolsCall.tools) = <<"echo", "jira_search">>
    /\ toolsRet = <<"jira_search">>
    /\ registry = {[name |-> "echo", token |-> TokA],
                   [name |-> "jira_search", token |-> TokB]}

\* C11 (idempotent unregistration): a call of unregister_all_platform_tools
\* removes every registered name of its list and nothing else, a name that is
\* not registered neither fails the call nor stops the removal of the names
\* after it; and the same call made again right after leaves the registered
\* operations as the first call left them.
C11_IdempotentUnregister ==
    [][LET names == toolsCall'.tools IN
       (toolsCall'.op = "unregister" /\ UnregisterAll(names))
       => /\ registry' = {e \in registry : e.name \notin Range(names)}
          /\ repeated' => registry' = registry
      ]_vars

\* C11 witness: unregister_all_platform_tools has just been called a second
\* time in a row with a list that names a tool that was never registered
\* before one that the first call removed, while another tool stays registered.
C11_Witness ==
    /\ toolsCall.op = "unregister"
    /\ repeated
    /\ toolsCall.tools = <<"gone", "echo">>
    /\ registry = {[name |-> "jira_search", token |-> TokA]}

(***************************************************************************)
(* Claims about the shared transport (checked under SpecClient).           *)
(***************************************************************************)
\* The transports that are open.
OpenTransports == {i \in 1..Len(transports) : ~transports[i].is_closed}

\* C12 as stated (guaranteed transport cleanup): whichever way the lifespan
\* has ended, by the regular shutdown or by an unhandled error in the running
\* server, every transport that was created is closed, and was closed once.
C12_TransportClosedOnce ==
    lifespan \in {"ended", "failed"}
    => \A i \in 1..Len(transports) :
          transports[i].is_closed /\ transports[i].acloses = 1

\* C17 as stated (single shared transport): at most one transport is open at
\* a time, a transport is created only when the client references none or a
\* closed one, and every transport created is still referenced by the client
\* or closed: none that is open is ever dropped.
C17_SingleTransport ==
    /\ [](Cardinality(OpenTransports) <= 1)
    /\ [](\A i \in OpenTransports : client = i)
    /\ [][Len(transports') > Len(transports)
          => (client = 0 \/ transports[client].is_closed)]_vars

(***************************************************************************)
(* Claims about the listing display (checked under SpecFormat).            *)
(***************************************************************************)
\* The names in a schema's required list.
RequiredOf(schema) ==
    LET req == DictGet(schema, "required", JList(<<>>)) IN
    {req.v[j].v : j \in 1..Len(req.v)}

\* C13 (description truncation boundary): in the summary of a parameter the
\* type is followed by '*' exactly when the parameter is in the schema's
\* required set, then by ": " and the description: in full and with nothing
\* after it when it has 50 characters or fewer, its first 50 characters and
\* the marker "..." when it has 51.
C13_TruncationBoundary ==
    [][\A name \in DOMAIN fmtIn'.v.properties.v :
         LET prop == fmtIn'.v.properties.v[name]
             type == IF "type" \in DOMAIN prop.v THEN prop.v.type.v ELSE "any"
             desc == IF "description" \in DOMAIN prop.v THEN prop.v.description.v
                     ELSE ""
             out == fmtOut'.v[name].v
             rest == SubSeq(out, Len(type) + 1, Len(out))
         IN  /\ SubSeq(out, 1, Len(type)) = type
             /\ StartsWith(rest, "*") <=> name \in RequiredOf(fmtIn')
             /\ LET shown == IF StartsWith(rest, "*")
                             THEN SubSeq(rest, 4, Len(rest))
                             ELSE SubSeq(rest, 3, Len(rest))
                IN  /\ Len(desc) <= 50 => shown = desc
                    /\ Len(desc) = 51 => shown = SubSeq(desc, 1, 50) \o "..."
      ]_vars

\* C13 witness: a schema with a required parameter whose description has 51
\* characters and an optional one whose description has 50 has just been
\* summarized: the first is cut after 50 characters and marked, the second is
\* shown in full.
C13_Witness ==
    /\ fmtIn = JObj([properties |->
                        JObj([q |-> JObj([type |-> JStr("string"),
                                          description |-> JStr(Desc(51))]),
                              n |-> JObj([description |-> JStr(Desc(50))])]),
                     required |-> JList(<<JStr("q")>>)])
    /\ fmtOut.v.q.v = "string*: " \o Desc(50) \o "..."
    /\ fmtOut.v.n.v = "any: " \o Desc(50)

(***************************************************************************)
(* Claims about the cache as the operations leave it (checked under Spec). *)
(***************************************************************************)
\* The keys of store st that belong to the token.
TokenKeys(st, token) ==
    {k \in DOMAIN st : StartsWith(k, Sha256Hex16(token) \o ":")}

\* C14 (refresh invalidates before fetching): a refresh with a token removes
\* every entry of the token in the step that sends its fetch; a failing fetch
\* then stores nothing, and a list call that finds no entry of the token calls
\* the gateway; a fetch that returned a catalog leaves it in the entry of the
\* token under the configured filter, and the list call that follows the
\* refresh returns that catalog with cached=true and sends no request.
C14_RefreshInvalidatesFirst ==
    [][\A r \in Reqs :
         /\ FreeSlot(r) =>
               \A h \in WithToken :
                 LET token == TokenOf[h].v IN
                 /\ RefreshStart(r, h)
                    => /\ TokenKeys(store', token) = {}
                       /\ gwCalls' = gwCalls + 1
                 /\ (ListStart(r, h) /\ TokenKeys(store, token) = {})
                    => /\ gwCalls' = gwCalls + 1
                       /\ pc'[r] = "list_fetch"
                       /\ resp' = NoResp
                 /\ ( /\ ListStart(r, h)
                      /\ resp.op = "refresh"
                      /\ wrote.token = token
                      /\ wrote.tools.t = "list" )
                    => /\ resp'.kind = "return"
                       /\ resp'.body.v.cached = JBool(TRUE)
                       /\ resp'.body.v.count = JInt(Len(wrote.tools.v))
                       /\ Returns(resp'.body) = ListBody(wrote.tools, TRUE)
                       /\ gwCalls' = gwCalls
         /\ pc[r] = "refresh_fetch" =>
               \A response \in FetchResponses :
                 RefreshDone(r, response)
                 => LET tools == fetch_tools(response) IN
                    IF tools.raised
                    THEN store' = store
                    ELSE tools.value.t = "list"
                         => store'[make_key(tok[r], JStr(TOOL_TYPES))]
                              = [tools |-> tools.value, timestamp |-> now]
      ]_vars

\* The gateway's response makes the fetch fail: an upstream error status, a
\* transport error or timeout, or a body the client cannot read.
FetchFails(response) ==
    response.kind # "ok" \/ ~IsDict(response.body)

\* The response just returned is a structured error with error and hint keys.
ErrorAndHint(m) ==
    /\ m.kind = "return"
    /\ IsDict(m.body)
    /\ DOMAIN m.body.v = {"error", "hint"}

\* C15 as stated (no partial state on a failed fetch): a list call that misses
\* the cache and whose fetch fails returns an error body with error and hint
\* keys, and neither its lookup nor its completion changes the store.
C15_Original ==
    [][\A r \in Reqs :
         /\ FreeSlot(r) =>
               \A h \in WithToken :
                 (ListStart(r, h) /\ pc'[r] = "list_fetch") => store' = store
         /\ pc[r] = "list_fetch" =>
               \A response \in FetchResponses :
                 (ListDone(r, response) /\ FetchFails(response))
                 => ErrorAndHint(resp') /\ store' = store
      ]_vars

\* C15 amended (no partial state on a failed fetch): the same, except that the
\* lookup of the missing call removes the entry of its own key when that entry
\* has expired; the call creates and modifies no entry, and leaves every other
\* key alone.
C15_NoPartialState ==
    [][\A r \in Reqs :
         /\ FreeSlot(r) =>
               \A h \in WithToken :
                 (ListStart(r, h) /\ pc'[r] = "list_fetch")
                 => LET key == make_key(TokenOf[h].v, JStr(TOOL_TYPES)) IN
                    \/ store' = store
                    \/ /\ key \in DOMAIN store
                       /\ now - store[key].timestamp > TTL
                       /\ store' = Del(store, key)
         /\ pc[r] = "list_fetch" =>
               \A response \in FetchResponses :
                 (ListDone(r, response) /\ FetchFails(response))
                 => ErrorAndHint(resp') /\ store' = store
      ]_vars

\* C15 witness: a list call has just returned the error of its failed fetch
\* while the entry that another request stored during its await stands as
\* that request left it.
C15_Witness ==
    /\ resp.op = "list"
    /\ ErrorAndHint(resp)
    /\ StartsWith(resp.body.v.error.v, "Failed to fetch tools")
    /\ wrote = NoWrite
    /\ make_key(TokA, JStr(TOOL_TYPES)) \in DOMAIN store
    /\ store[make_key(TokA, JStr(TOOL_TYPES))].tools = CatOne

\* C16 (last writer to complete wins): a step in which a list or refresh
\* request runs its cache.set leaves, under the key of its token and the
\* configured filter, exactly the catalog it fetched with the time of that
\* step, whatever was stored before and whichever request was sent first;
\* every other step leaves the entries it does not remove as they are. So
\* the entry holds the catalog and the time of the set that ran last.
C16_LastWriterWins ==
    [][IF wrote' # NoWrite
       THEN LET key == make_key(wrote'.token, JStr(TOOL_TYPES)) IN
            /\ key \in DOMAIN store'
            /\ store'[key] = [tools |-> wrote'.tools, timestamp |-> now']
            /\ \A k \in DOMAIN store' \ {key} : k \in DOMAIN store /\ store'[k] = store[k]
       ELSE \A k \in DOMAIN store' : k \in DOMAIN store /\ store'[k] = store[k]
      ]_vars

\* C16 witness: all requests have completed; the one that has just stored its
\* catalog was sent before a request of the same token that stored a
\* different catalog while the first was suspended, and the entry holds the
\* catalog of the first, stored last, with the time of its set.
C16_Witness ==
    /\ wrote # NoWrite
    /\ wrote.over # None
    /\ wrote.over # wrote.tools
    /\ order = <<>>
    /\ \A r \in Reqs : pc[r] = "idle"
    /\ store[make_key(wrote.token, JStr(TOOL_TYPES))]
          = [tools |-> wrote.tools, timestamp |-> now]

(***************************************************************************)
(* Claims about the registered callables (checked under SpecCallables).    *)
(***************************************************************************)
\* C18 (same error shape from registered callables): whatever the gateway
\* answers, the callable returns without raising; for a successful result it
\* returns what workoflow_execute returns, the raw payload; otherwise it
\* returns an error object with the same keys and the same error message as
\* workoflow_execute returns for that response.
C18_SameErrorShape ==
    invoked # NoInvoke
    => LET mine == invoked.outcome
           theirs == ExecuteOutcome(invoked.response)
           result == invoked.response.body
       IN  /\ ~mine.raised
           /\ IF /\ invoked.response.kind = "ok"
                 /\ IsDict(result)
                 /\ Truthy(DictGet(result, "success", None))
              THEN mine.value = theirs.value
              ELSE /\ IsDict(mine.value) /\ IsDict(theirs.value)
                   /\ DOMAIN mine.value.v = DOMAIN theirs.value.v
                   /\ mine.value.v.error = theirs.value.v.error

(***************************************************************************)
(* More claims about the cache (checked under SpecCache).                  *)
(***************************************************************************)
\* The filters that are given, as opposed to absent.
GivenFilters == Filters \ {NoFilter}

\* The step removes at most the key of (token, f) and changes nothing else;
\* it changes nothing at all when that key is not stored.
RemovesOnlyKeyOf(token, f) ==
    LET key == make_key(token, f) IN
    /\ key \notin DOMAIN store'
    /\ DOMAIN store' = DOMAIN store \ {key}
    /\ \A k \in DOMAIN store' : store'[k] = store[k]
    /\ key \notin DOMAIN store => store' = store
    /\ \A tokenB \in CacheTokens \ {token} :
         Peek(store', now', tokenB, f) = Peek(store, now, tokenB, f)

\* C19 (targeted invalidation frame): invalidate(token, filter) with a filter
\* given removes the entry of (token, filter) if it is stored and leaves every
\* other entry as it is: what get returns for the same token under the
\* filters stored in another entry (another key segment) and for any other
\* token under the same filter is unchanged; with no such entry the store is
\* unchanged.
C19_TargetedInvalidation ==
    [][call' = "invalidate_key" =>
         \A token \in CacheTokens, f \in GivenFilters :
           CacheInvalidate(token, f)
           => /\ RemovesOnlyKeyOf(token, f)
              /\ \A filterY \in Filters :
                   Segment(filterY) # Segment(f)
                   => Peek(store', now', token, filterY) = Peek(store, now, token, filterY)
      ]_vars

\* C19 witness: an invalidation with a filter has just removed one entry of
\* four, and the three others (the same token under the other segment, the
\* other token under both) are still stored.
C19_Witness ==
    /\ call = "invalidate_key"
    /\ removed = 1
    /\ Cardinality(DOMAIN store) = 3
    /\ \E token \in CacheTokens, f \in GivenFilters :
         /\ make_key(token, f) \notin DOMAIN store
         /\ \E filterY \in GivenFilters : make_key(token, filterY) \in DOMAIN store
         /\ \A tokenB \in CacheTokens \ {token} : make_key(tokenB, f) \in DOMAIN store

(***************************************************************************)
(* Claims about the store under two users (checked under SpecTokens).      *)
(***************************************************************************)
\* The catalogs a successful fetch for the token returns.
FetchedFor(token) ==
    {fetch_tools(x).value : x \in {y \in FetchResponsesFor(token) : ~fetch_tools(y).raised}}

\* The step belongs to a workoflow_execute call.
ExecuteStep ==
    \/ resp'.op = "execute"
    \/ \E r \in Reqs : (pc[r] = "execute") # (pc'[r] = "execute")

\* C20 (implicit invariant of the store): whatever list, execute and refresh
\* calls with whatever tokens have interleaved, the store holds at most one
\* entry per token, every key is a token's hash followed by the configured
\* filter ("all" when it is empty), every stored catalog is one that a
\* successful fetch for that token returned, and no step of an execute call
\* changes the store.
C20_StoreInvariant ==
    /\ [](\A token \in ServerTokens :
            /\ Cardinality(TokenKeys(store, token)) <= 1
            /\ \A k \in TokenKeys(store, token) : store[k].tools \in FetchedFor(token))
    /\ [](\A k \in DOMAIN store : \E token \in ServerTokens :
            k = Sha256Hex16(token) \o ":" \o (IF TOOL_TYPES = "" THEN "all" ELSE TOOL_TYPES))
    /\ [][ExecuteStep => store' = store]_vars

\* C20 witness: an execute call has just returned while both tokens hold an
\* entry, each with a catalog of its own user.
C20_Witness ==
    /\ resp.op = "execute"
    /\ \A token \in ServerTokens : Cardinality(TokenKeys(store, token)) = 1
    /\ Cardinality(DOMAIN store) = 2
    /\ \E k \in TokenKeys(store, TokA) : store[k].tools = CatOne
    /\ \E k \in TokenKeys(store, TokB) : store[k].tools = CatTwo

\* The bodies a list call can return for the catalogs fetched with the token.
ShownFor ==
    [token \in ServerTokens |->
       {ListBody(c, cached).value :
           c \in {x \in FetchedFor(token) : ~format_tools_for_display(x).raised},
           cached \in BOOLEAN}]

\* The response just returned is a list call's catalog, and it is one fetched
\* with the token and with no other token.
ReturnsOwnCatalog(token) ==
    (resp'.kind = "return" /\ "tools" \in DOMAIN resp'.body.v)
    => /\ resp'.body \in ShownFor[token]
       /\ \A tokenB \in ServerTokens \ {token} : resp'.body \notin ShownFor[tokenB]

\* The step belongs to a list or refresh request made with the token.
StepOf(token) ==
    \E r \in Reqs : pc'[r] # pc[r] /\ (tok[r] = token \/ tok'[r] = token)

\* The entries of the token are in store st2 what they are in store st1.
SameEntries(token, st1, st2) ==
    \/ st2 = st1
    \/ /\ TokenKeys(st2, token) = TokenKeys(st1, token)
       /\ \A k \in TokenKeys(st1, token) : st2[k] = st1[k]

\* C21 (token isolation): with two callers of distinct tokens interleaved, a
\* list call made with tokenA returns, from the cache or from its fetch, only
\* a catalog fetched with tokenA, never one fetched with tokenB; a refresh by
\* tokenB, like every step that is not a list or refresh step of tokenA,
\* leaves tokenA's entry in place with its catalog and timestamp; so what
\* tokenA's calls return is decided by tokenA's entry and tokenA's fetches.
C21_TokenIsolation ==
    [][/\ \A r \in Reqs :
            /\ (resp'.op = "list" /\ resp'.req = r /\ pc[r] = "idle") =>
                  \A h \in TokenHeaders :
                    (Truthy(TokenOf[h]) /\ ListStart(r, h))
                    => ReturnsOwnCatalog(TokenOf[h].v)
            /\ (pc[r] = "idle" /\ pc'[r] = "refresh_fetch") =>
                  \A tokenA \in ServerTokens \ {tok'[r]} : SameEntries(tokenA, store, store')
            /\ (pc[r] = "list_fetch" /\ pc'[r] = "idle") => ReturnsOwnCatalog(tok[r])
            /\ (pc[r] = "refresh_fetch" /\ pc'[r] = "idle") =>
                  \A tokenA \in ServerTokens \ {tok[r]} : SameEntries(tokenA, store, store')
       /\ \A tokenA \in ServerTokens :
            ~StepOf(tokenA) => SameEntries(tokenA, store, store')
      ]_vars

\* C21 witness: a list call for tkA has just returned tkA's catalog from the
\* cache, after tkB's refresh stored tkB's catalog later than tkA's entry was
\* stored; both entries stand, each with its own catalog.
C21_Witness ==
    LET keyA == make_key(TokA, JStr(TOOL_TYPES))
        keyB == make_key(TokB, JStr(TOOL_TYPES))
    IN  /\ resp.op = "list"
        /\ resp.kind = "return"
        /\ resp.body = ListBody(CatOne, TRUE).value
        /\ keyA \in DOMAIN store /\ keyB \in DOMAIN store
        /\ store[keyA].tools = CatOne
        /\ store[keyB].tools = CatTwo
        /\ store[keyB].timestamp > store[keyA].timestamp
        /\ listed[TokB] = <<>>

====
